---- MODULE Spec2Model ----
(***************************************************************************)
(* Model of Crawler/Kinetics/download.py: the proxy pool kept in           *)
(* proxies.txt (get_random_proxy, remove_proxy_from_list), the clip        *)
(* fetcher (download_clip), the per-row wrapper (download_clip_wrapper)     *)
(* and the batch coordinator (main).                                       *)
(*                                                                         *)
(* Two specifications are given.                                           *)
(*   PoolSpec : workers call get_random_proxy() and                        *)
(*              remove_proxy_from_list(p) on the shared file, one file     *)
(*              operation per step.                                        *)
(*   Spec     : two consecutive runs of main() over the same manifest,     *)
(*              output directory, status log and proxy file.               *)
(*                                                                         *)
(* Texts are sequences of tokens; proxies.txt is a sequence of one-byte    *)
(* tokens so that truncation and overlapping writes are byte exact.        *)
(***************************************************************************)
EXTENDS Integers, Sequences, FiniteSets, TLC

VARIABLES
    proxies_txt,      \* content of proxies.txt (a byte sequence) or NoFile
    pw,               \* PoolSpec: per worker, its position in the pool calls
    poolHist,         \* PoolSpec: history of the pool calls
    manifest,         \* the rows of input_csv
    hasLabel,         \* whether input_csv has a label-name column
    csv_status_file,  \* the --csv-status-file argument, or None
    num_jobs,         \* the --num-jobs argument
    statusLog,        \* content of the status log, or NoFile
    files,            \* the output files that exist
    tmpExists,        \* whether tmp_dir exists
    run,              \* "first" or "second" run of main
    pcMain,           \* position of main
    exc,              \* the exception that ended the run, or None
    dataset,          \* main's dataset after the status-log filter
    next,             \* next position of dataset to hand to a worker
    wk,               \* per worker, its position in download_clip_wrapper
    status_lst,       \* main's status_lst: position |-> outcome
    report,           \* content of download_report.json, or None
    trace,            \* per manifest row, what the current run did for it
    first             \* what the first run left behind

vars == <<proxies_txt, pw, poolHist, manifest, hasLabel, csv_status_file,
          num_jobs, statusLog, files, tmpExists, run, pcMain, exc, dataset,
          next, wk, status_lst, report, trace, first>>

poolVars == <<pw, poolHist>>
mainVars == <<manifest, hasLabel, csv_status_file, num_jobs, statusLog, files,
              tmpExists, run, pcMain, exc, dataset, next, wk, status_lst,
              report, trace, first>>

None   == "None"
NoFile == "NoFile"
NL     == "\n"

(***************************************************************************)
(* Bounds of the model.                                                    *)
(***************************************************************************)
MaxLines == 2     \* lines of the initial proxies.txt under PoolSpec
MaxPicks == 2     \* get_random_proxy calls per worker under PoolSpec
MaxRows  == 2     \* rows of the manifest

(***************************************************************************)
(* Generic sequence helpers.                                               *)
(***************************************************************************)
Range(s) == {s[i] : i \in DOMAIN s}

SeqsUpTo(S, n) == UNION {[1..k -> S] : k \in 0..n}

RECURSIVE Concat(_)
Concat(ss) == IF ss = <<>> THEN <<>> ELSE Head(ss) \o Concat(Tail(ss))

\* Python `needle in hay` on two texts of the same type: substring test.
IsSubstring(needle, hay) ==
    \E i \in 0..(Len(hay) - Len(needle)) :
        \A j \in 1..Len(needle) : hay[i + j] = needle[j]

(***************************************************************************)
(* proxies.txt as text.                                                    *)
(***************************************************************************)
ProxyBytes == {"a", "b"}

HasNL(t) == \E i \in DOMAIN t : t[i] = NL
FirstNL(t) == CHOOSE i \in DOMAIN t : t[i] = NL /\ \A j \in 1..(i - 1) : t[j] # NL

\* str.split("\n")
RECURSIVE Split(_)
Split(t) ==
    IF ~HasNL(t) THEN <<t>>
    ELSE <<SubSeq(t, 1, FirstNL(t) - 1)>> \o Split(SubSeq(t, FirstNL(t) + 1, Len(t)))

\* file.readlines(): every line keeps its newline; no line after a final newline
RECURSIVE ReadLines(_)
ReadLines(t) ==
    IF t = <<>> THEN <<>>
    ELSE IF ~HasNL(t) THEN <<t>>
    ELSE <<SubSeq(t, 1, FirstNL(t))>> \o ReadLines(SubSeq(t, FirstNL(t) + 1, Len(t)))

\* str.strip("\n")
RECURSIVE StripNL(_)
StripNL(l) ==
    IF l = <<>> THEN l
    ELSE IF Head(l) = NL THEN StripNL(Tail(l))
    ELSE IF l[Len(l)] = NL THEN StripNL(SubSeq(l, 1, Len(l) - 1))
    ELSE l

\* list.remove(x): drops the first occurrence (the caller sees ValueError
\* when there is none, see GetRandomProxy)
ListRemove(l, x) ==
    IF x \notin Range(l) THEN l
    ELSE LET i == CHOOSE k \in DOMAIN l : l[k] = x /\ \A j \in 1..(k - 1) : l[j] # x
         IN  SubSeq(l, 1, i - 1) \o SubSeq(l, i + 1, Len(l))

Returned(p) == [kind |-> "proxy", val |-> p]
Raised(e)   == [kind |-> e, val |-> <<>>]

\* get_random_proxy() without its `if not proxy` check: a blank entry is returned.
GetRandomProxyUnchecked(file) ==
    IF file = NoFile THEN {Raised("SystemExit")}
    ELSE IF <<>> \notin Range(Split(file)) THEN {Raised("ValueError")}
    ELSE LET proxies == ListRemove(Split(file), <<>>)
         IN  IF proxies = <<>> THEN {Raised("IndexError")}
             ELSE {Returned(proxies[i]) : i \in DOMAIN proxies}

\* The outcomes of get_random_proxy() on a content of proxies.txt.
GetRandomProxy(file) ==
    IF file = NoFile THEN {Raised("SystemExit")}
    ELSE IF <<>> \notin Range(Split(file)) THEN {Raised("ValueError")}
    ELSE LET proxies == ListRemove(Split(file), <<>>)
         IN  IF proxies = <<>> THEN {Raised("IndexError")}
             ELSE {IF proxies[i] = <<>> THEN Raised("SystemExit")
                                        ELSE Returned(proxies[i]) : i \in DOMAIN proxies}

\* The lines of the pool: what split("\n") yields, blank entries dropped.
PoolOf(file) == IF file = NoFile THEN {} ELSE Range(Split(file)) \ {<<>>}

\* remove_proxy_from_list, the lines it keeps and later writes.
RECURSIVE KeepLines(_, _)
KeepLines(lines, proxy) ==
    IF lines = <<>> THEN <<>>
    ELSE (IF StripNL(Head(lines)) # proxy THEN Head(lines) ELSE <<>>)
         \o KeepLines(Tail(lines), proxy)

\* A buffered writer that opened the file "w" flushes its buffer at offset 0
\* when it closes: bytes another writer put beyond the buffer's length stay.
WriteAtZero(file, buf) == buf \o SubSeq(file, Len(buf) + 1, Len(file))

(***************************************************************************)
(* PoolSpec: concurrent callers of the proxy pool.                          *)
(***************************************************************************)
PoolWorkers == {"w1", "w2"}

Line(l, nl) == IF nl THEN Append(l, NL) ELSE l

\* Initial files: up to MaxLines lines, each one proxy or blank, the last one
\* with or without its newline.
InitialPoolFiles ==
    {Concat([i \in DOMAIN ls |-> Line(ls[i], i < Len(ls) \/ last)]) :
        ls \in SeqsUpTo({<<b>> : b \in ProxyBytes} \cup {<<>>}, MaxLines),
        last \in BOOLEAN}

PoolIdle == [pc |-> "idle", proxy |-> <<>>, lines |-> <<>>, picks |-> 0]

PoolInit ==
    /\ proxies_txt \in InitialPoolFiles
    /\ pw = [w \in PoolWorkers |-> PoolIdle]
    /\ poolHist = [initial |-> proxies_txt, removed |-> {}, disabled |-> {},
                   args |-> {}, overlap |-> FALSE, pickedRemoved |-> FALSE]
    /\ manifest = <<>> /\ hasLabel = FALSE /\ csv_status_file = None
    /\ num_jobs = 1 /\ statusLog = NoFile /\ files = {} /\ tmpExists = FALSE
    /\ run = "first" /\ pcMain = "setup" /\ exc = None /\ dataset = <<>>
    /\ next = 1 /\ wk = <<>> /\ status_lst = <<>> /\ report = None
    /\ trace = <<>> /\ first = <<>>

\* get_random_proxy(): one read of the file, then the choice.
PoolPick(w) ==
    /\ pw[w].pc = "idle"
    /\ pw[w].picks < MaxPicks
    /\ \E o \in GetRandomProxy(proxies_txt) :
          /\ pw' = [pw EXCEPT ![w] =
                      [@ EXCEPT !.pc = IF o.kind = "proxy" THEN "holding" ELSE o.kind,
                                !.proxy = o.val,
                                !.picks = @ + 1]]
          /\ poolHist' = [poolHist EXCEPT !.pickedRemoved =
                            @ \/ (o.kind = "proxy" /\ o.val \in poolHist.removed)]
    /\ UNCHANGED <<proxies_txt, mainVars>>

\* The caller is done with its proxy without evicting it.
PoolRelease(w) ==
    /\ pw[w].pc = "holding"
    /\ pw' = [pw EXCEPT ![w] = [@ EXCEPT !.pc = "idle", !.proxy = <<>>]]
    /\ UNCHANGED <<proxies_txt, poolHist, mainVars>>

\* remove_proxy_from_list(proxy): with open(...,"r"): lines = f.readlines()
RemoveRead(w) ==
    /\ pw[w].pc = "holding"
    /\ pw' = [pw EXCEPT ![w] = [@ EXCEPT !.pc = "opened_r",
                                         !.lines = ReadLines(proxies_txt)]]
    /\ poolHist' = [poolHist EXCEPT
          !.args = @ \cup {pw[w].proxy},
          !.overlap = @ \/ \E v \in PoolWorkers \ {w} :
                              /\ pw[v].pc \in {"opened_r", "opened_w"}
                              /\ pw[v].proxy = pw[w].proxy]
    /\ UNCHANGED <<proxies_txt, mainVars>>

\* open("proxies.txt", "w") truncates the file
RemoveTruncate(w) ==
    /\ pw[w].pc = "opened_r"
    /\ proxies_txt' = <<>>
    /\ pw' = [pw EXCEPT ![w] = [@ EXCEPT !.pc = "opened_w"]]
    /\ UNCHANGED <<poolHist, mainVars>>

\* the kept lines are buffered and reach the file when the with-block closes it
RemoveWrite(w) ==
    /\ pw[w].pc = "opened_w"
    /\ proxies_txt' = WriteAtZero(proxies_txt, KeepLines(pw[w].lines, pw[w].proxy))
    /\ pw' = [pw EXCEPT ![w] = [@ EXCEPT !.pc = "written", !.lines = <<>>]]
    /\ UNCHANGED <<poolHist, mainVars>>

\* subprocess.run(stop); subprocess.run(disable): ssh does its work, or exits
\* non-zero (ignored, no check=True), or cannot be started and run() raises.
SshResults == {"stopped", "refused", "OSError"}

\* disable_squid_on_srv(proxy), then remove_proxy_from_list returns or the
\* exception of subprocess.run leaves it.
RemoveDisable(w) ==
    /\ pw[w].pc = "written"
    /\ \E r \in SshResults :
          /\ pw' = [pw EXCEPT ![w] =
                      IF r = "OSError" THEN [@ EXCEPT !.pc = "OSError"]
                      ELSE [@ EXCEPT !.pc = "idle", !.proxy = <<>>]]
          /\ poolHist' = [poolHist EXCEPT
                !.disabled = IF r = "stopped" THEN @ \cup {pw[w].proxy} ELSE @,
                !.removed = IF r = "OSError" THEN @ ELSE @ \cup {pw[w].proxy}]
    /\ UNCHANGED <<proxies_txt, mainVars>>

PoolNext ==
    \E w \in PoolWorkers :
        \/ PoolPick(w)
        \/ PoolRelease(w)
        \/ RemoveRead(w)
        \/ RemoveTruncate(w)
        \/ RemoveWrite(w)
        \/ RemoveDisable(w)

PoolSpec == PoolInit /\ [][PoolNext]_vars

(***************************************************************************)
(* Python values: bytes and str texts.                                     *)
(***************************************************************************)
Bytes(tokens) == [type |-> "bytes", s |-> tokens]
Str(tokens)   == [type |-> "str", s |-> tokens]

\* `needle in hay`: a str needle in a bytes text (or the reverse) raises
\* TypeError; otherwise the substring test.
PyIn(needle, hay) ==
    IF needle.type # hay.type THEN "TypeError"
    ELSE IF IsSubstring(needle.s, hay.s) THEN "True" ELSE "False"

\* str(x): the repr b'...' of a bytes text, a str unchanged
PyStr(x) == IF x.type = "bytes" THEN Str(<<"b'">> \o x.s \o <<"'">>) ELSE x

\* str.replace(',', '.')
ReplaceCommas(t) == [i \in DOMAIN t |-> IF t[i] = "," THEN "." ELSE t[i]]

Tok429 == <<"429">>
error_429_message == <<"HTTP Error ", "429", ": Too Many Requests">>

\* Diagnostic outputs of a failed external command.
Diags ==
    { <<"ERROR: ", "Video unavailable", ",", " skipping">>,
      <<"ERROR: ", "HTTP Error ", "429", ": Too Many Requests">>,
      <<"ERROR: requested format ", "429", " not available">> }

\* subprocess.check_output(command, shell=True, stderr=STDOUT) of the resolver:
\* its stdout as bytes, or CalledProcessError carrying the output as bytes.
ResolverOutcomes ==
    {[ok |-> TRUE, output |-> Bytes(<<"https://direct/url">>)]}
    \cup {[ok |-> FALSE, output |-> Bytes(d)] : d \in Diags}

\* The same for the trim/encode command, which may or may not leave the
\* output file behind, whatever its exit status.
EncoderOutcomes ==
    {[ok |-> TRUE, output |-> Bytes(<<>>), wrote |-> b] : b \in BOOLEAN}
    \cup {[ok |-> FALSE, output |-> Bytes(d), wrote |-> b] : d \in Diags, b \in BOOLEAN}

(***************************************************************************)
(* The manifest and the planned output files.                              *)
(***************************************************************************)
NumAttempts == 5
IdLength    == 11
NumJobs     == 2

Rows ==
    { [id |-> "abcdefghijk", st |-> 10, en |-> 15, label |-> "dance"],
      [id |-> "abcdefghijk", st |-> 20, en |-> 25, label |-> "sing"],
      [id |-> "short",       st |-> 10, en |-> 15, label |-> "dance"] }

Manifests == SeqsUpTo(Rows, MaxRows)

\* trim_format % value with trim_format = '%06d'
TrimFormat(n) == [i \in 1..6 |-> (n \div (10 ^ (6 - i))) % 10]

\* construct_video_filename
construct_video_filename(row) ==
    [dir  |-> IF hasLabel THEN row.label ELSE "test",
     base |-> <<row.id, TrimFormat(row.st), TrimFormat(row.en)>>]

PlannedFiles(m) ==
    {[dir |-> IF labelled THEN m[i].label ELSE "test",
      base |-> <<m[i].id, TrimFormat(m[i].st), TrimFormat(m[i].en)>>] :
        i \in DOMAIN m, labelled \in BOOLEAN}

Jobs == 1..num_jobs

WorkerIdle == [pc |-> "idle", pos |-> 0, proxy |-> <<>>, attempts |-> 0,
               url |-> <<>>, downloaded |-> FALSE, log |-> Str(<<>>)]

NoTrace == [dispatched |-> FALSE, existed |-> FALSE, picks |-> 0, resolver |-> 0, encoder |-> 0,
            limited |-> FALSE, logged |-> FALSE, present |-> FALSE]

Init ==
    /\ proxies_txt \in {NoFile, <<>>, <<NL>>, <<"a", NL>>}
    /\ pw = <<>>
    /\ poolHist = <<>>
    /\ manifest \in Manifests
    /\ hasLabel \in BOOLEAN
    /\ csv_status_file \in {None, "status.csv"}
    /\ num_jobs \in {1, NumJobs}
    /\ statusLog = NoFile
    /\ files \in SUBSET {f \in PlannedFiles(manifest) : f.dir # "test" <=> hasLabel}
    /\ tmpExists \in BOOLEAN
    /\ run = "first"
    /\ pcMain = "setup"
    /\ exc = None
    /\ dataset = <<>>
    /\ next = 1
    /\ wk = [w \in 1..NumJobs |-> WorkerIdle]
    /\ status_lst = <<>>
    /\ report = [written |-> FALSE, content |-> <<>>]
    /\ trace = [i \in DOMAIN manifest |-> NoTrace]
    /\ first = [limited |-> {}, files |-> {}, skipped |-> {}]

Row(w) == manifest[dataset[wk[w].pos]]

\* An uncaught exception (or exit(1)) in a worker ends the run.
Exceptions == {"AssertionError", "TypeError", "SystemExit", "ValueError", "IndexError",
               "FileNotFoundError"}

Raise(w, e) ==
    /\ wk' = [wk EXCEPT ![w] = [@ EXCEPT !.pc = e]]
    /\ pcMain' = "crashed"
    /\ exc' = IF exc = None THEN e ELSE exc

\* The ids recorded in the status log (status_df.video_identifier.unique()).
LoggedIds(log) == IF log = NoFile THEN {} ELSE {log[i].id : i \in DOMAIN log}

\* dataset.drop(index_values): the rows whose video-id is not in the log.
RECURSIVE Surviving(_, _, _)
Surviving(m, i, skip) ==
    IF i > Len(m) THEN <<>>
    ELSE (IF m[i].id \in skip THEN <<>> ELSE <<i>>) \o Surviving(m, i + 1, skip)

\* main, up to the download loop: create_video_folders and the status-log filter.
MainSetup ==
    /\ pcMain = "setup"
    /\ tmpExists' = (hasLabel \/ tmpExists)
    /\ statusLog' = IF csv_status_file # None /\ statusLog = NoFile THEN <<>> ELSE statusLog
    /\ dataset' = Surviving(manifest, 1,
                            IF csv_status_file # None THEN LoggedIds(statusLog') ELSE {})
    /\ pcMain' = "download"
    /\ UNCHANGED <<proxies_txt, poolVars, manifest, hasLabel, csv_status_file, num_jobs,
                   files, run, exc, next, wk, status_lst, report, trace, first>>

\* download_clip_wrapper without its os.path.exists shortcut.
NeverDownloaded(fs, output_filename) == FALSE

\* os.path.exists(output_filename) in download_clip_wrapper
AlreadyDownloaded(fs, output_filename) == output_filename \in fs

\* An iteration over the rows that hands out the same row again.
SameRow(i) == i

\* for i, row in dataset.iterrows(): the row handed to the next call
NextRow(i) == i + 1

\* download_clip_wrapper, up to the call of download_clip.
Wrapper(w) ==
    /\ pcMain = "download"
    /\ w \in Jobs
    /\ wk[w].pc = "idle"
    /\ \A v \in 1..(w - 1) : wk[v].pc # "idle"   \* idle workers are interchangeable
    /\ next <= Len(dataset)
    /\ LET row == manifest[dataset[next]]
           output_filename == construct_video_filename(row)
       IN  /\ IF AlreadyDownloaded(files, output_filename)
              THEN /\ status_lst' = status_lst @@
                        (next :> [clip_id |-> output_filename.base, downloaded |-> TRUE,
                                  log |-> <<"Exists">>])
                   /\ wk' = wk
              ELSE /\ wk' = [wk EXCEPT ![w] = [WorkerIdle EXCEPT !.pc = "download_clip",
                                                                 !.pos = next]]
                   /\ status_lst' = status_lst
           /\ trace' = [trace EXCEPT ![dataset[next]] =
                          [@ EXCEPT !.dispatched = TRUE,
                                    !.existed = (output_filename \in files)]]
    /\ next' = NextRow(next)
    /\ UNCHANGED <<proxies_txt, poolVars, manifest, hasLabel, csv_status_file, num_jobs,
                   statusLog, files, tmpExists, run, pcMain, exc, dataset, report, first>>

\* download_clip without the length assertion.
AnyIdentifier(video_identifier) == TRUE

\* assert len(video_identifier) == 11
ValidIdentifier(video_identifier) == Len(video_identifier) = IdLength

\* download_clip: the argument checks and get_random_proxy().
DownloadClip(w) ==
    /\ wk[w].pc = "download_clip"
    /\ IF ~ValidIdentifier(Row(w).id)
       THEN /\ Raise(w, "AssertionError")
            /\ trace' = trace
       ELSE \E o \in GetRandomProxy(proxies_txt) :
               IF o.kind = "proxy"
               THEN /\ wk' = [wk EXCEPT ![w] = [@ EXCEPT !.pc = "resolve",
                                                         !.proxy = o.val,
                                                         !.attempts = 0]]
                    /\ trace' = [trace EXCEPT ![dataset[wk[w].pos]].picks = @ + 1]
                    /\ UNCHANGED <<pcMain, exc>>
               ELSE /\ Raise(w, o.kind)
                    /\ trace' = trace
    /\ UNCHANGED <<proxies_txt, poolVars, manifest, hasLabel, csv_status_file, num_jobs,
                   statusLog, files, tmpExists, run, dataset, next, status_lst, report,
                   first>>

\* remove_proxy_from_list run without interleaving (its steps are in PoolSpec).
RemoveProxyFromList(file, proxy) ==
    IF file = NoFile THEN file
    ELSE WriteAtZero(<<>>, KeepLines(ReadLines(file), proxy))

Limited(output) == IsSubstring(error_429_message, output.s)

\* download_clip: one attempt of the URL resolution and its except clause.
\* err.output is bytes, so `"429" in err.output` raises TypeError inside the
\* handler and the lines after it run only if the test could be evaluated.
Resolve(w) ==
    /\ wk[w].pc = "resolve"
    /\ \E r \in ResolverOutcomes :
          /\ trace' = [trace EXCEPT ![dataset[wk[w].pos]] =
                         [@ EXCEPT !.resolver = @ + 1,
                                   !.limited = @ \/ (~r.ok /\ Limited(r.output))]]
          /\ IF r.ok
             THEN /\ wk' = [wk EXCEPT ![w] = [@ EXCEPT !.pc = "encode", !.url = r.output.s]]
                  /\ UNCHANGED <<proxies_txt, pcMain, exc>>
             ELSE LET test == PyIn(Str(Tok429), r.output)
                  IN  IF test = "TypeError"
                      THEN /\ Raise(w, "TypeError")
                           /\ UNCHANGED proxies_txt
                      ELSE /\ proxies_txt' = IF test = "True"
                                             THEN RemoveProxyFromList(proxies_txt, wk[w].proxy)
                                             ELSE proxies_txt
                           /\ wk' = [wk EXCEPT ![w] =
                                 IF wk[w].attempts + 1 = NumAttempts
                                 THEN [@ EXCEPT !.pc = "log", !.downloaded = FALSE,
                                                !.log = PyStr(r.output)]
                                 ELSE [@ EXCEPT !.attempts = @ + 1]]
                           /\ UNCHANGED <<pcMain, exc>>
    /\ UNCHANGED <<poolVars, manifest, hasLabel, csv_status_file, num_jobs, statusLog,
                   files, tmpExists, run, dataset, next, status_lst, report, first>>

\* download_clip taking the command's clean exit for success.
SavedAlways(fs, output_filename) == TRUE

\* status = os.path.exists(output_filename) after the encode command
SavedStatus(fs, output_filename) == output_filename \in fs

\* download_clip: the trim/encode command, its except clause, and the
\* os.path.exists check that sets the returned status.
Encode(w) ==
    /\ wk[w].pc = "encode"
    /\ \E e \in EncoderOutcomes :
          LET output_filename == construct_video_filename(Row(w))
          IN  /\ files' = IF e.wrote THEN files \cup {output_filename} ELSE files
              /\ trace' = [trace EXCEPT ![dataset[wk[w].pos]] =
                             [@ EXCEPT !.encoder = @ + 1,
                                       !.limited = @ \/ (~e.ok /\ Limited(e.output)),
                                       !.present = (e.ok /\ output_filename \in files')]]
              /\ IF e.ok
                 THEN /\ wk' = [wk EXCEPT ![w] =
                            [@ EXCEPT !.pc = "log",
                                      !.downloaded = SavedStatus(files', output_filename),
                                      !.log = Str(<<"Downloaded">>)]]
                      /\ UNCHANGED <<proxies_txt, pcMain, exc>>
                 ELSE LET test == PyIn(Str(Tok429), e.output)
                      IN  IF test = "TypeError"
                          THEN /\ Raise(w, "TypeError")
                               /\ UNCHANGED proxies_txt
                          ELSE /\ proxies_txt' = IF test = "True"
                                                 THEN RemoveProxyFromList(proxies_txt, wk[w].proxy)
                                                 ELSE proxies_txt
                               /\ wk' = [wk EXCEPT ![w] =
                                     [@ EXCEPT !.pc = "log", !.downloaded = FALSE,
                                               !.log = PyStr(e.output)]]
                               /\ UNCHANGED <<pcMain, exc>>
    /\ UNCHANGED <<poolVars, manifest, hasLabel, csv_status_file, num_jobs, statusLog,
                   tmpExists, run, dataset, next, status_lst, report, first>>

\* download_clip_wrapper logging only what carries the marker (test inverted).
WritesLogInverted(status_file, log) ==
    status_file # None /\ PyIn(Str(error_429_message), log) = "True"

\* Whether download_clip_wrapper appends the outcome to the status log.
WritesLog(status_file, log) ==
    status_file # None /\ PyIn(Str(error_429_message), log) = "False"

\* download_clip_wrapper, after download_clip returned: the status log and
\* the returned tuple.
WrapperLog(w) ==
    /\ wk[w].pc = "log"
    /\ LET writes == WritesLog(csv_status_file, wk[w].log)
           entry == [id |-> Row(w).id, status |-> ReplaceCommas(wk[w].log.s)]
       IN  /\ statusLog' = IF ~writes THEN statusLog
                           ELSE IF statusLog = NoFile THEN <<entry>>
                           ELSE Append(statusLog, entry)
           /\ trace' = [trace EXCEPT ![dataset[wk[w].pos]].logged = writes]
    /\ status_lst' = status_lst @@
          (wk[w].pos :> [clip_id |-> construct_video_filename(Row(w)).base,
                         downloaded |-> wk[w].downloaded,
                         log |-> wk[w].log.s])
    /\ wk' = [wk EXCEPT ![w] = WorkerIdle]
    /\ UNCHANGED <<proxies_txt, poolVars, manifest, hasLabel, csv_status_file, num_jobs,
                   files, tmpExists, run, pcMain, exc, dataset, next, report, first>>

AllDone == next > Len(dataset) /\ \A w \in DOMAIN wk : wk[w].pc = "idle"

\* main: shutil.rmtree(tmp_dir)
MainCleanup ==
    /\ pcMain = "download"
    /\ AllDone
    /\ IF tmpExists
       THEN /\ tmpExists' = FALSE
            /\ pcMain' = "report"
            /\ exc' = exc
       ELSE /\ pcMain' = "crashed"
            /\ exc' = "FileNotFoundError"
            /\ tmpExists' = tmpExists
    /\ UNCHANGED <<proxies_txt, poolVars, manifest, hasLabel, csv_status_file, num_jobs,
                   statusLog, files, run, dataset, next, wk, status_lst, report, trace,
                   first>>

\* main: json.dumps(status_lst) to download_report.json
MainReport ==
    /\ pcMain = "report"
    /\ report' = [written |-> TRUE, content |-> status_lst]
    /\ pcMain' = "done"
    /\ UNCHANGED <<proxies_txt, poolVars, manifest, hasLabel, csv_status_file, num_jobs,
                   statusLog, files, tmpExists, run, exc, dataset, next, wk, status_lst,
                   trace, first>>

\* The process has ended; main is started again with the same arguments.
NextRun ==
    /\ run = "first"
    /\ pcMain \in {"done", "crashed"}
    /\ run' = "second"
    /\ first' = [limited |-> {i \in DOMAIN manifest : trace[i].limited},
                 files |-> files,
                 skipped |-> IF csv_status_file # None THEN LoggedIds(statusLog) ELSE {}]
    /\ pcMain' = "setup"
    /\ exc' = None
    /\ dataset' = <<>>
    /\ next' = 1
    /\ wk' = [w \in 1..NumJobs |-> WorkerIdle]
    /\ status_lst' = <<>>
    /\ trace' = [i \in DOMAIN manifest |-> NoTrace]
    /\ UNCHANGED <<proxies_txt, poolVars, manifest, hasLabel, csv_status_file, num_jobs,
                   statusLog, files, tmpExists, report>>

Next ==
    \/ MainSetup
    \/ \E w \in 1..NumJobs :
          \/ Wrapper(w)
          \/ DownloadClip(w)
          \/ Resolve(w)
          \/ Encode(w)
          \/ WrapperLog(w)
    \/ MainCleanup
    \/ MainReport
    \/ NextRun

Spec == Init /\ [][Next]_vars

(***************************************************************************)
(* Properties.                                                             *)
(***************************************************************************)
Removing == {"opened_r", "opened_w", "written"}

PoolQuiescent == \A w \in DOMAIN pw : pw[w].pc \notin Removing

\* C1: once remove_proxy_from_list(p) has returned, no later get_random_proxy()
\* returns p, and at rest the persisted pool holds no removed proxy and nothing
\* that was not in it initially.
C1_RemovalIrreversible ==
    /\ ~poolHist.pickedRemoved
    /\ PoolQuiescent =>
          PoolOf(proxies_txt) \subseteq (PoolOf(poolHist.initial) \ poolHist.removed)

\* C2: after two workers evicted the same proxy p with overlapping
\* remove_proxy_from_list(p) calls (and nothing else was evicted), the persisted
\* pool is the initial pool minus p.
C2_SameProxyEviction ==
    (poolHist.overlap /\ PoolQuiescent /\ Cardinality(poolHist.args) = 1) =>
        \A p \in poolHist.args :
            PoolOf(proxies_txt) = PoolOf(poolHist.initial) \ {p}

Positions == DOMAIN status_lst

HasMarker(log) == IsSubstring(error_429_message, log)

InFlight(i) ==
    \E w \in DOMAIN wk :
        /\ wk[w].pc \in {"download_clip", "resolve", "encode", "log"}
        /\ dataset[wk[w].pos] = i

Outcome(i) == {status_lst[k] : k \in {j \in Positions : dataset[j] = i}}

\* C3 as stated: with a status log configured, every completed item is in the
\* log if and only if its outcome is not rate-limited (Exists included).
C3_LoggedIffNotRateLimited ==
    csv_status_file # None =>
        \A k \in Positions :
            trace[dataset[k]].logged <=> ~HasMarker(status_lst[k].log)

\* C3 amended: an item's outcome is appended to the status log if and only if
\* a status log is configured, download_clip returned for it (it is not an
\* Exists outcome) and its message does not carry the rate-limit marker.
C3_FetchedLoggedIffNotRateLimited ==
    \A k \in Positions :
        trace[dataset[k]].logged <=>
            /\ csv_status_file # None
            /\ status_lst[k].log # <<"Exists">>
            /\ ~HasMarker(status_lst[k].log)

C3_Witness ==
    /\ csv_status_file # None
    /\ \E k \in Positions : status_lst[k].log = <<"Downloaded">> /\ trace[dataset[k]].logged
    /\ \E k \in Positions : status_lst[k].log = <<"Exists">> /\ ~trace[dataset[k]].logged

\* C4: a per-item failure (identifier validation, URL resolution, encode)
\* never ends the run: no run ends on the exception such a failure raises.
C4_PerItemFailureNeverAborts ==
    pcMain = "crashed" => exc \notin {"AssertionError", "TypeError"}

\* C5: a fetch whose URL resolution only ever failed, without the rate-limit
\* marker, made exactly num_attempts resolver calls, no encoder call, and
\* yielded a failed outcome for its row.
C5_ResolutionRetriedToExhaustion ==
    \A i \in DOMAIN trace :
        (/\ trace[i].resolver >= 1
         /\ trace[i].encoder = 0
         /\ ~trace[i].limited
         /\ ~InFlight(i))
        => /\ trace[i].resolver = NumAttempts
           /\ \E o \in Outcome(i) : ~o.downloaded /\ o.log # <<"Exists">>

NoExternalCalls == \A i \in DOMAIN trace : trace[i].resolver = 0 /\ trace[i].encoder = 0

AllExists == \A k \in Positions : status_lst[k].downloaded /\ status_lst[k].log = <<"Exists">>

\* C6 as stated: whatever the first run did, the second run invokes no
\* resolver and no encoder and every item of it resolves as Exists.
C6_SecondRunAllExists ==
    run = "second" => NoExternalCalls /\ AllExists

\* C6 amended: when every row's planned output file exists at the start of the
\* second run, the second run invokes no resolver and no encoder and every
\* item it processes resolves as (clip_id, True, "Exists").
C6_SecondRunAllExistsWhenFilesPresent ==
    (/\ run = "second"
     /\ \A i \in DOMAIN manifest : construct_video_filename(manifest[i]) \in first.files)
    => NoExternalCalls /\ AllExists

C6_Witness ==
    /\ run = "second"
    /\ \A i \in DOMAIN manifest : construct_video_filename(manifest[i]) \in first.files
    /\ pcMain = "done"
    /\ Len(dataset) = MaxRows

\* C7: a row whose planned output file exists when download_clip_wrapper runs
\* yields (clip_id, True, "Exists") and no fetch: no proxy is picked and neither
\* the resolver nor the encoder runs for it.
C7_ExistsSkipsFetch ==
    \A i \in DOMAIN trace :
        trace[i].existed =>
            /\ Outcome(i) = {[clip_id |-> construct_video_filename(manifest[i]).base,
                              downloaded |-> TRUE, log |-> <<"Exists">>]}
            /\ ~InFlight(i)
            /\ trace[i].picks = 0 /\ trace[i].resolver = 0 /\ trace[i].encoder = 0
            /\ ~trace[i].logged

C7_Witness ==
    \E i \in DOMAIN trace : trace[i].existed /\ trace[i].dispatched /\ Outcome(i) # {}

\* C8: download_clip on an identifier whose length is not 11 raises the
\* assertion error before anything else: no proxy is picked, no resolver or
\* encoder runs, and nothing is appended to the status log for it.
C8_BadIdentifierFailsFast ==
    \A w \in DOMAIN wk :
        (wk[w].pos # 0 /\ wk[w].pc # "download_clip" /\ Len(Row(w).id) # IdLength)
        => /\ wk[w].pc = "AssertionError"
           /\ trace[dataset[wk[w].pos]].picks = 0
           /\ trace[dataset[wk[w].pos]].resolver = 0
           /\ trace[dataset[wk[w].pos]].encoder = 0
           /\ ~trace[dataset[wk[w].pos]].logged

C8_Witness ==
    \E w \in DOMAIN wk : wk[w].pc = "AssertionError" /\ Len(Row(w).id) # IdLength

PoolFailures == {"SystemExit", "ValueError", "IndexError"}

\* C9 as stated: with an empty or unreadable proxy list, a run over a
\* non-empty manifest never reaches its end: it aborts.
C9_EmptyPoolAlwaysAborts ==
    (PoolOf(proxies_txt) = {} /\ Len(manifest) > 0) => pcMain \notin {"report", "done"}

\* C9 amended: with an empty or unreadable proxy list no proxy is picked, no
\* resolver or encoder runs, every outcome produced is an Exists outcome, every
\* row handed to download_clip ends the run there, and a run reaches its end
\* only if every surviving row's output file already existed.
C9_EmptyPoolNoFetch ==
    PoolOf(proxies_txt) = {} =>
        /\ NoExternalCalls
        /\ \A i \in DOMAIN trace : trace[i].picks = 0
        /\ AllExists
        /\ \A w \in DOMAIN wk :
              (wk[w].pos # 0 /\ wk[w].pc # "download_clip")
              => wk[w].pc \in PoolFailures \cup {"AssertionError"}
        /\ pcMain \in {"report", "done"} =>
              \A k \in DOMAIN dataset : trace[dataset[k]].existed

C9_Witness ==
    /\ PoolOf(proxies_txt) = {}
    /\ pcMain = "crashed"
    /\ exc \in PoolFailures
    /\ \E k \in Positions : status_lst[k].log = <<"Exists">>

\* C10: in the second run no row whose id is recorded in the status log is
\* dispatched, and once the second run has handled all its rows every item
\* that was rate-limited (and not logged) in the first run was dispatched again.
C10_ResumeRetriesRateLimited ==
    run = "second" =>
        /\ \A i \in DOMAIN trace :
              trace[i].dispatched => manifest[i].id \notin first.skipped
        /\ pcMain \in {"report", "done"} =>
              \A i \in first.limited : trace[i].dispatched

\* C11: a run in which every item completed goes on to remove the temporary
\* directory and write the report: it does not end in an exception.
C11_CompletedRunReachesReport ==
    (/\ Len(dataset) > 0 /\ Positions = DOMAIN dataset /\ AllDone
     /\ pcMain \notin {"setup", "download"})
    => pcMain \in {"report", "done"}

\* C12: after a URL-resolution attempt failed with the rate-limit signal and
\* attempts remain, the fetch goes on (it retries) and the proxy that failed
\* is no longer in the pool the retry picks from.
C12_RetryAfterEviction ==
    \A w \in DOMAIN wk :
        (/\ wk[w].pos # 0
         /\ trace[dataset[wk[w].pos]].limited
         /\ trace[dataset[wk[w].pos]].encoder = 0
         /\ trace[dataset[wk[w].pos]].resolver < NumAttempts)
        => /\ wk[w].pc = "resolve"
           /\ wk[w].proxy \notin PoolOf(proxies_txt)

\* C13: the encoder runs at most once per fetch and only after a resolver
\* call, and a fetch whose encoder ran and that is over has returned an
\* outcome for its row (the failure is returned, not raised).
C13_EncodeFailureReturned ==
    \A i \in DOMAIN trace :
        /\ trace[i].encoder <= 1
        /\ trace[i].encoder = 1 => trace[i].resolver >= 1
        /\ (trace[i].encoder = 1 /\ ~InFlight(i)) => Outcome(i) # {}

\* C14: when the encode command raised no error, the fetch returns the message
\* "Downloaded" with succeeded equal to whether the output file existed right
\* after the command; with a status log configured the outcome is recorded in
\* it, also when no file was produced.
C14_StatusIsFileExistence ==
    /\ \A w \in DOMAIN wk :
          (wk[w].pc = "log" /\ trace[dataset[wk[w].pos]].encoder = 1)
          => /\ wk[w].log = Str(<<"Downloaded">>)
             /\ wk[w].downloaded = trace[dataset[wk[w].pos]].present
    /\ \A k \in Positions :
          status_lst[k].log = <<"Downloaded">>
          => /\ status_lst[k].downloaded = trace[dataset[k]].present
             /\ csv_status_file # None =>
                   /\ trace[dataset[k]].logged
                   /\ [id |-> manifest[dataset[k]].id, status |-> <<"Downloaded">>]
                         \in Range(statusLog)

C14_Witness ==
    /\ csv_status_file # None
    /\ \E k \in Positions :
          /\ status_lst[k] = [clip_id |-> construct_video_filename(manifest[dataset[k]]).base,
                              downloaded |-> FALSE, log |-> <<"Downloaded">>]
          /\ trace[dataset[k]].logged
          /\ construct_video_filename(manifest[dataset[k]]) \notin files

\* Every line of the file is a proxy followed by a newline.
CleanFile(file) ==
    \A i \in DOMAIN ReadLines(file) :
        /\ Len(ReadLines(file)[i]) >= 2
        /\ ReadLines(file)[i][Len(ReadLines(file)[i])] = NL

\* C15: with a well-formed proxies.txt holding a proxy other than the one being
\* removed, a get_random_proxy() that runs while remove_proxy_from_list(q) is in
\* progress never fails or exits as if the pool were empty.
C15_NoTornRead ==
    (/\ CleanFile(poolHist.initial)
     /\ Cardinality(poolHist.args) <= 1
     /\ PoolOf(poolHist.initial) \ poolHist.args # {})
    => \A w \in PoolWorkers : pw[w].pc \notin PoolFailures

\* C17: on a proxies.txt with at least one non-empty line that no removal has
\* touched, wherever its blank lines are and whether or not it ends with a
\* newline, get_random_proxy() returns a non-empty line and never raises or
\* exits.
C17_BlankLinesIgnored ==
    (PoolOf(poolHist.initial) # {} /\ poolHist.args = {})
    => \A w \in PoolWorkers :
          /\ pw[w].pc \notin PoolFailures
          /\ pw[w].pc = "holding" => pw[w].proxy \in PoolOf(poolHist.initial)

\* No other call of remove_proxy_from_list is between its read and its return.
Alone(w) == \A v \in PoolWorkers \ {w} : pw[v].pc \notin Removing

\* C18: once remove_proxy_from_list(p), overlapping no other removal and p the
\* only proxy ever removed, has closed the file and before disable_squid_on_srv starts, the file
\* is the initial one without the lines equal to p, the others as they were and
\* in order; and no failure of disable_squid_on_srv leaves the call as an
\* exception.
C18_RemovalPersistedDisableContained ==
    \A w \in PoolWorkers :
        /\ (/\ pw[w].pc = "written" /\ Alone(w) /\ ~poolHist.overlap
            /\ poolHist.args = {pw[w].proxy})
           => proxies_txt = KeepLines(ReadLines(poolHist.initial), pw[w].proxy)
        /\ pw[w].pc # "OSError"

\* Every handed-out position is with one worker or has its one outcome.
OnePerItem ==
    /\ Positions \subseteq 1..(next - 1)
    /\ \A w \in DOMAIN wk :
          wk[w].pos # 0 =>
              /\ wk[w].pos < next
              /\ wk[w].pos \notin Positions
              /\ \A v \in DOMAIN wk \ {w} : wk[v].pos # wk[w].pos
    /\ \A k \in 1..(next - 1) :
          k \in Positions \/ \E w \in DOMAIN wk : wk[w].pos = k
    /\ \A k \in Positions :
          status_lst[k].log = <<"Exists">> =>
              /\ trace[dataset[k]].picks = 0
              /\ trace[dataset[k]].resolver = 0
              /\ trace[dataset[k]].encoder = 0

\* An item that has its outcome keeps it, and nothing more is run for it.
Final ==
    \A k \in Positions :
        /\ k \in DOMAIN status_lst'
        /\ status_lst'[k] = status_lst[k]
        /\ trace'[dataset[k]] = trace[dataset[k]]

\* C16: within one run, sequential or parallel, every surviving row is handed
\* to at most one download_clip_wrapper call, yields at most one outcome in
\* status_lst, and once it has its outcome (Exists, or the tuple download_clip
\* returned) that outcome stays and no further proxy pick, resolver or encoder
\* call is made for it.
C16_TerminalStatesFinal == [][(run' = run) => (Final /\ OnePerItem')]_vars

C16_Witness ==
    /\ num_jobs = NumJobs
    /\ Positions = {1, 2}
    /\ status_lst[1].log = <<"Exists">>
    /\ status_lst[2].log = <<"Downloaded">>
    /\ trace[dataset[2]].encoder = 1

\* C19: a failed resolver or encoder attempt has evicted its proxy from
\* proxies.txt if and only if its diagnostic holds the marker that
\* download_clip_wrapper uses to keep an outcome out of the status log.
C19_ClassifiersAgree ==
    \A w \in DOMAIN wk :
        wk[w].pc = "TypeError"
        => ((wk[w].proxy \notin PoolOf(proxies_txt))
               <=> trace[dataset[wk[w].pos]].limited)

====
